---- MODULE Spec2Model ----
(***************************************************************************)
(* csv2mt940: conversion of a delimiter-separated bank export into an      *)
(* MT940 statement (src/csv2mt940.py, main).                               *)
(*                                                                         *)
(* Text is modelled as a sequence of one-character strings, so that        *)
(* strip, split, replace, slicing and wrapping are computed character by   *)
(* character as the Python code computes them.  A CSV row is a sequence of *)
(* such texts; Python's 0-based column i is element i+1.                   *)
(*                                                                         *)
(* The property that compares a run with --suppress-balances to the run    *)
(* without it needs both runs over the same input.  The state therefore    *)
(* carries the locals of main once per value of args.suppress_balances:    *)
(* run[TRUE] is the run with the flag set, run[FALSE] the run without it.  *)
(* Both read the same reader.                                              *)
(***************************************************************************)
EXTENDS Integers, Sequences, FiniteSets, TLC

VARIABLES
    args,       \* the parsed command line (without suppress_balances)
    consumed,   \* the rows the csv reader has yielded so far, in order
    run         \* run[sb]: the locals of main when args.suppress_balances = sb

vars == <<args, consumed, run>>

----------------------------------------------------------------------------
(* Bounds of the model *)

MaxRows == 5        \* rows the reader yields at most
MaxLimit == 2       \* --limit ranges over 0..MaxLimit
CommentLen == 460   \* raw length of the long comment of the catalogue

----------------------------------------------------------------------------
(* Python string primitives *)

Min(a, b) == IF a < b THEN a ELSE b
Max(a, b) == IF a > b THEN a ELSE b

\* characters str.strip() and str.split() treat as white space
Whitespace == {" ", "\t", "\r", "\n"}

\* s[a:b] for 0 <= a, 0 <= b
PySlice(s, a, b) ==
    IF a >= Min(b, Len(s)) THEN <<>> ELSE SubSeq(s, a + 1, Min(b, Len(s)))

\* s[:m], m possibly negative
PyHead(s, m) ==
    IF m >= 0 THEN PySlice(s, 0, m) ELSE PySlice(s, 0, Max(0, Len(s) + m))

\* s.strip()
strip(s) ==
    LET n == Len(s)
        nonws == {i \in 1..n : s[i] \notin Whitespace}
    IN  IF nonws = {} THEN <<>>
        ELSE LET lo == CHOOSE i \in nonws : \A j \in 1..(i - 1) : s[j] \in Whitespace
                 hi == CHOOSE i \in nonws : \A j \in (i + 1)..n : s[j] \in Whitespace
             IN  SubSeq(s, lo, hi)

\* s.startswith(p)
startswith(s, p) == Len(s) >= Len(p) /\ SubSeq(s, 1, Len(p)) = p

\* s.replace(".", ",")
replace_dot(s) == [i \in 1..Len(s) |-> IF s[i] = "." THEN "," ELSE s[i]]

\* s.upper() on the letters of the alphabet
UpperOf ==
    [c \in {"a","b","c","d","e","f","g","h","i","j","k","l","m",
            "n","o","p","q","r","s","t","u","v","w","x","y","z"} |->
        CASE c = "a" -> "A" [] c = "b" -> "B" [] c = "c" -> "C" [] c = "d" -> "D"
          [] c = "e" -> "E" [] c = "f" -> "F" [] c = "g" -> "G" [] c = "h" -> "H"
          [] c = "i" -> "I" [] c = "j" -> "J" [] c = "k" -> "K" [] c = "l" -> "L"
          [] c = "m" -> "M" [] c = "n" -> "N" [] c = "o" -> "O" [] c = "p" -> "P"
          [] c = "q" -> "Q" [] c = "r" -> "R" [] c = "s" -> "S" [] c = "t" -> "T"
          [] c = "u" -> "U" [] c = "v" -> "V" [] c = "w" -> "W" [] c = "x" -> "X"
          [] c = "y" -> "Y" [] c = "z" -> "Z"]
upper(s) == [i \in 1..Len(s) |-> IF s[i] \in DOMAIN UpperOf THEN UpperOf[s[i]] ELSE s[i]]

\* sep.join(parts)
RECURSIVE join(_, _)
join(sep, parts) ==
    IF parts = <<>> THEN <<>>
    ELSE IF Len(parts) = 1 THEN parts[1]
    ELSE parts[1] \o sep \o join(sep, Tail(parts))

\* s.split(sep) for a one-character sep: the pieces between the separators
split(s, sep) ==
    LET cuts == {i \in 1..Len(s) : s[i] = sep}
        n == Cardinality(cuts)
        \* position of the k-th separator; 0 before the first, Len(s)+1 after the last
        at(k) == IF k = 0 THEN 0
                 ELSE IF k = n + 1 THEN Len(s) + 1
                 ELSE CHOOSE i \in cuts : Cardinality({j \in cuts : j <= i}) = k
    IN  [k \in 1..(n + 1) |-> PySlice(s, at(k - 1), at(k) - 1)]

\* " ".join(text.split()): the words of text, separated by single blanks
join_words(text) ==
    LET t == strip(text)
        marked == [i \in 1..Len(t) |->
                     IF t[i] \in Whitespace
                     THEN (IF t[i - 1] \in Whitespace THEN "" ELSE " ")
                     ELSE t[i]]
    IN  SelectSeq(marked, LAMBDA c : c # "")

----------------------------------------------------------------------------
(* Literals of the program *)

CRLF == <<"\r", "\n">>
BOM == <<"BOM">>                  \* "﻿", one character
Unbound == <<"UNBOUND">>          \* a local that no assignment has bound yet
currency_fallback == <<"E", "U", "R">>
needed_idx == {1, 3, 4, 5, 7, 10, 11, 12}
max_needed_idx == CHOOSE m \in needed_idx : \A i \in needed_idx : i <= m
now == <<"2", "0", "2", "4", "0", "5", "2", "4", "1", "2", "0", "0", "0", "0">>           \* datetime.now().strftime('%Y%m%d%H%M%S')

RowErrors == {"MalformedRow", "InvalidDateFormat", "MissingAmount"}

----------------------------------------------------------------------------
(* wrap_86 *)

wrap_86(text, width, max_lines) ==
    LET clean == join_words(text)
        n == Len(clean)
        chunks == [k \in 1..((n + width - 1) \div width) |->
                     PySlice(clean, (k - 1) * width, k * width)]
        lines == IF chunks = <<>> THEN << <<>> >> ELSE chunks
    IN  PyHead(lines, max_lines)

----------------------------------------------------------------------------
(* The body of the row loop of main *)

\* not row or all(c.strip() == "" for c in row)
is_blank(row) == row = <<>> \/ \A i \in 1..Len(row) : strip(row[i]) = <<>>

\* joined = args.delimiter.join(row).strip()
joined_of(row) == strip(join(<<args.delimiter>>, row))

\* joined.startswith(f"{args.delimiter*4}Total")
is_footer(joined) ==
    startswith(joined, [i \in 1..4 |-> args.delimiter] \o <<"T", "o", "t", "a", "l">>)

\* len(row) <= max(needed_idx)
too_few_columns(row) == Len(row) <= max_needed_idx

\* the test of date_parts: len(d) >= 10 and d[2] == "." and d[5] == "."
date_ok(d) == Len(d) >= 10 /\ d[3] = "." /\ d[6] = "."

\* the value of date_parts: d[8:10], d[3:5], d[0:2]
date_parts(d) == [yy |-> PySlice(d, 8, 10), mm |-> PySlice(d, 3, 5), dd |-> PySlice(d, 0, 2)]

\* val = amt if amt.strip() else amt_alt
amount_val(amt, amt_alt) == IF strip(amt) # <<>> THEN amt ELSE amt_alt

\* a faulty amount_dc that never yields "C" (C1 rests on amount_dc)
amount_dc_always_debit(amt, amt_alt) == "D"

\* dc = "D"; if not amt.strip() and amt_alt.strip(): dc = "C"
amount_dc(amt, amt_alt) ==
    IF strip(amt) = <<>> /\ strip(amt_alt) # <<>> THEN "C" ELSE "D"

\* the header of the statement, built from the account of the row
header_of(account) ==
    <<":", "2", "0", ":", "D", "a", "t", "e", "O", "f", "C", "o", "n", "v", "e", "r", "s", "i", "o", "n">> \o now \o CRLF
    \o <<":", "2", "5", ":">> \o account \o CRLF
    \o <<":", "2", "8", "C", ":", "0", "0", "0", "0", "1", "/", "0", "0", "1">> \o CRLF

\* f"{dd_v}{mm_v}{yy_v}"
balance_date(v) == v.dd \o v.mm \o v.yy

\* a faulty closing_after that overwrites at every row (C7 rests on closing_after)
closing_after_every_row(s, v) == balance_date(v)

\* closing_date after the row: set where the header is built, kept otherwise
closing_after(s, v) == IF s.header = <<>> THEN balance_date(v) ELSE s.closing_date

\* header after the row
header_after(s, account) == IF s.header = <<>> THEN header_of(account) ELSE s.header

\* ttype = args.ttype.strip().upper() if args.profile == "starmoney" else "FCHG"
ttype_of == IF args.profile = "starmoney" THEN upper(strip(args.ttype)) ELSE <<"F", "C", "H", "G">>

\* the :61: line
line_61(v, b, dc, val) ==
    <<":", "6", "1", ":">> \o v.yy \o v.mm \o v.dd \o b.mm \o b.dd \o <<dc>> \o val \o ttype_of
    \o <<"N", "O", "N", "R", "E", "F", "/", "/", "N", "O", "N", "R", "E", "F">> \o CRLF

\* the lines of the :86: block under the starmoney profile
lines_86_starmoney(comment) ==
    LET eref == IF args.eref # <<>> THEN args.eref ELSE <<"N", "O", "N", "R", "E", "F">>
        purp == strip(args.purp)
        first_line == <<"E", "R", "E", "F", "+">> \o eref \o (IF purp # <<>> THEN <<" ", "P", "U", "R", "P", "+">> \o purp ELSE <<>>)
        parts_86 == wrap_86(first_line, 65, 6)
        sv_lines == wrap_86(<<"S", "V", "W", "Z", "+">> \o comment, 65, 6 - Len(parts_86))
    IN  parts_86 \o sv_lines

\* the lines of the :86: block otherwise
lines_86_plain(comment, tags) ==
    LET parts_86 == wrap_86(comment, 65, 6)
        pieces == IF tags # <<>> THEN split(tags, ",") ELSE <<>>
        stripped == [i \in 1..Len(pieces) |-> strip(pieces[i])]
        tag_list == SelectSeq(stripped, LAMBDA t : t # <<>>)
        tag_text == IF tag_list # <<>> THEN join(<<";", " ">>, tag_list) ELSE <<>>
    IN  SelectSeq(parts_86, LAMBDA l : l # <<>>)
        \o (IF tag_text # <<>> THEN <<tag_text>> ELSE <<>>)

lines_86(comment, tags) ==
    IF args.profile = "starmoney" THEN lines_86_starmoney(comment)
    ELSE lines_86_plain(comment, tags)

\* ":86:" + "\r\n".join(lines) + "\r\n"
block_86(lines) == <<":", "8", "6", ":">> \o join(CRLF, lines) \o CRLF

\* a faulty limit_reached that stops one row late (C9 rests on limit_reached)
limit_reached_late(tx_count) == args.limit # 0 /\ tx_count > args.limit

\* args.limit and tx_count >= args.limit
limit_reached(tx_count) == args.limit # 0 /\ tx_count >= args.limit

\* a faulty fail that reports and returns (C2 rests on fail)
fail_and_return(s, error) == s

\* fail(msg): the message goes to stderr and the process exits
fail(s, error) == [s EXCEPT !.pc = error]

\* One pass through the loop body for the row the reader yields.
loop_body(s0, row) ==
    LET s == [s0 EXCEPT !.lineNumber = @ + 1] IN
    IF s.lineNumber < 3 THEN s
    ELSE IF is_blank(row) THEN s
    ELSE IF is_footer(joined_of(row)) THEN s
    ELSE IF too_few_columns(row) THEN fail(s, "MalformedRow")
    ELSE
    LET booking == strip(row[13])
        valuta  == strip(row[4])
        comment == strip(row[5])
        tags    == strip(row[6])
        account == strip(row[2])
        curr    == IF strip(row[8]) # <<>> THEN strip(row[8]) ELSE currency_fallback
        amt     == strip(row[11])
        amt_alt == strip(row[12])
        s1      == [s EXCEPT !.curr = curr]
    IN
    IF ~date_ok(booking) \/ ~date_ok(valuta) THEN fail(s1, "InvalidDateFormat")
    ELSE IF strip(amount_val(amt, amt_alt)) = <<>> THEN fail(s1, "MissingAmount")
    ELSE
    LET b    == date_parts(booking)
        v    == date_parts(valuta)
        dc   == amount_dc(amt, amt_alt)
        val  == replace_dot(amount_val(amt, amt_alt))
        body == line_61(v, b, dc, val) \o block_86(lines_86(comment, tags))
        n    == s1.tx_count + 1
    IN  [s1 EXCEPT !.header = header_after(s1, account),
                   !.closing_date = closing_after(s1, v),
                   !.bodies = Append(@, body),
                   !.tx_count = n,
                   !.opening_date = balance_date(v),
                   !.accepted = Append(@, s1.lineNumber),
                   !.pc = IF limit_reached(n) THEN "write" ELSE "loop"]

----------------------------------------------------------------------------
(* Serialization: the writes after the loop *)

\* a faulty write_bodies that writes in accumulation order (C3 rests on write_bodies)
RECURSIVE write_bodies_forward(_, _)
write_bodies_forward(bodies, i) ==
    IF i <= 0 THEN <<>> ELSE write_bodies_forward(bodies, i - 1) \o bodies[i]

\* for i in range(tx_count, 0, -1): write(bodies[i-1])
RECURSIVE write_bodies(_, _)
write_bodies(bodies, i) ==
    IF i <= 0 THEN <<>> ELSE bodies[i] \o write_bodies(bodies, i - 1)

line_60F(s) == <<":", "6", "0", "F", ":", "C">> \o s.opening_date \o s.curr \o <<"0", ",", "0">> \o CRLF
line_62F(s) == <<":", "6", "2", "F", ":", "C">> \o s.closing_date \o s.curr \o <<"0", ",", "0">> \o CRLF

\* The state of the run after the writes.  Formatting a balance line reads
\* curr, which no assignment has bound unless a row got as far as line 173:
\* Python then raises UnboundLocalError, after the byte-order mark and the
\* header have been written.
serialize(s, suppress_balances) ==
    LET start == BOM \o s.header IN
    IF ~suppress_balances /\ s.curr = Unbound
    THEN [s EXCEPT !.out = start, !.pc = "UnboundLocalError"]
    ELSE [s EXCEPT
            !.out = start
                    \o (IF ~suppress_balances THEN line_60F(s) ELSE <<>>)
                    \o write_bodies(s.bodies, s.tx_count)
                    \o (IF ~suppress_balances THEN line_62F(s) ELSE <<>>)
                    \o CRLF,
            !.pc = "done"]

----------------------------------------------------------------------------
(* The inputs: a catalogue of CSV rows and the command lines *)

\* a row of 13 columns with the columns the program reads filled in
Row(account, valuta, comment, tags, curr, amt, amt_alt, booking) ==
    << <<>>, account, <<>>, valuta, comment, tags, <<>>, curr, <<>>, <<>>,
       amt, amt_alt, booking >>

\* a comment of CommentLen characters with leading, trailing and doubled blanks
LongComment == [i \in 1..CommentLen |-> IF i % 9 \in {0, 1} THEN " " ELSE "x"]

Catalogue ==
    << \* 1: debit, the row of the spec's example
       Row(<<"1", "2", "3", "4", "5">>, <<"2", "4", ".", "0", "5", ".", "2", "0", "2", "4">>, <<"P", "a", "y", "m", "e", "n", "t", " ", "A", "B", "C">>, <<"f", "o", "o", "d", ",", "r", "e", "n", "t">>, <<"C", "H", "F">>,
           <<"1", "0", "0", ".", "0", "0">>, <<>>, <<"2", "4", ".", "0", "5", ".", "2", "0", "2", "4">>),
       \* 2: credit, long comment, blank currency, padded cells
       Row(<<"9", "9">>, <<" ", "3", "1", ".", "1", "2", ".", "2", "0", "2", "4">>, LongComment, <<"a", ",", " ", ",", "b">>, <<" ">>, <<" ", " ">>, <<" ", "1", ".", "2", "3", "4", ".", "5", " ">>,
           <<"0", "2", ".", "0", "1", ".", "2", "0", "2", "5">>),
       \* 3: both amount columns filled, no comment, no tags, date with a suffix
       Row(<<>>, <<"0", "5", ".", "0", "6", ".", "2", "0", "2", "3", " ", "0", "0", ":", "0", "0">>, <<>>, <<>>, <<"U", "S", "D">>, <<"7">>, <<"8", ".", "5">>, <<"0", "5", ".", "0", "6", ".", "2", "0", "2", "3">>),
       \* 4: both amount columns blank
       Row(<<"1", "2", "3", "4", "5">>, <<"2", "4", ".", "0", "5", ".", "2", "0", "2", "4">>, <<"x">>, <<>>, <<"C", "H", "F">>, <<" ">>, <<>>, <<"2", "4", ".", "0", "5", ".", "2", "0", "2", "4">>),
       \* 5: value date not DD.MM.YYYY
       Row(<<"1", "2", "3", "4", "5">>, <<"3", "1", "-", "1", "2", "-", "2", "0", "2", "4">>, <<"x">>, <<>>, <<"C", "H", "F">>, <<"1", ".", "0", "0">>, <<>>, <<"3", "1", ".", "1", "2", ".", "2", "0", "2", "4">>),
       \* 6: booking date not DD.MM.YYYY
       Row(<<"1", "2", "3", "4", "5">>, <<"3", "1", ".", "1", "2", ".", "2", "0", "2", "4">>, <<"x">>, <<>>, <<"C", "H", "F">>, <<"1", ".", "0", "0">>, <<>>, <<"1", ".", "1", ".", "2", "4">>),
       \* 7: five columns
       << <<>>, <<"1", "2", "3", "4", "5">>, <<>>, <<"2", "4", ".", "0", "5", ".", "2", "0", "2", "4">>, <<"x">> >>,
       \* 8: thirteen blank columns
       Row(<<>>, <<" ">>, <<>>, <<>>, <<>>, <<" ", " ">>, <<>>, <<>>),
       \* 9: an empty line
       <<>>,
       \* 10: the footer line
       << <<>>, <<>>, <<>>, <<>>, <<"T", "o", "t", "a", "l">>, <<>>, <<"4", "2", ".", "0", "0">> >> >>

DataKinds == 1..Len(Catalogue)
\* the first two lines of an export: a full row or a short row
HeaderKinds == {1, 7}

Delimiters == {";", "\t"}
\* --profile; without the option args.profile is None, which the program
\* treats as "plain": it only ever tests args.profile == "starmoney"
Profiles == {"plain", "starmoney"}

ArgSets ==
    [delimiter : Delimiters, limit : 0..MaxLimit, profile : Profiles,
     ttype : {<<"n", "t", "r", "f", " ">>}, eref : {<<"N", "O", "N", "R", "E", "F">>}, purp : {<<>>, <<"S", "A", "L", "A">>}]

----------------------------------------------------------------------------
(* The state machine *)

\* the locals of main before the loop
main_locals ==
    [pc |-> "loop", lineNumber |-> 0, tx_count |-> 0, bodies |-> <<>>,
     header |-> <<>>, opening_date |-> <<>>, closing_date |-> <<>>,
     curr |-> Unbound, out |-> <<>>, accepted |-> <<>>]

Init ==
    /\ args \in {a \in ArgSets : a.profile = "plain" => a.purp = <<>>}
    /\ consumed = <<>>
    /\ run = [sb \in BOOLEAN |-> main_locals]

\* The reader yields one more row and every run in the loop processes it.
ReadRow(k) ==
    /\ \E sb \in BOOLEAN : run[sb].pc = "loop"
    /\ Len(consumed) < MaxRows
    /\ k \in (IF Len(consumed) < 2 THEN HeaderKinds ELSE DataKinds)
    /\ consumed' = Append(consumed, k)
    /\ run' = [sb \in BOOLEAN |->
                 IF run[sb].pc = "loop" THEN loop_body(run[sb], Catalogue[k])
                 ELSE run[sb]]
    /\ UNCHANGED args

\* The reader is exhausted: the loop ends.
EndOfInput ==
    /\ \E sb \in BOOLEAN : run[sb].pc = "loop"
    /\ run' = [sb \in BOOLEAN |->
                 IF run[sb].pc = "loop" THEN [run[sb] EXCEPT !.pc = "write"]
                 ELSE run[sb]]
    /\ UNCHANGED <<args, consumed>>

\* The writes to the output file after the loop.
Serialize(sb) ==
    /\ run[sb].pc = "write"
    /\ run' = [run EXCEPT ![sb] = serialize(run[sb], sb)]
    /\ UNCHANGED <<args, consumed>>

Next ==
    \/ \E k \in DataKinds : ReadRow(k)
    \/ EndOfInput
    \/ \E sb \in BOOLEAN : Serialize(sb)

Spec == Init /\ [][Next]_vars

----------------------------------------------------------------------------
(* Vocabulary of the properties, stated on the rows read and on the text   *)
(* written, independently of the operators of the program above.           *)

Runs == BOOLEAN

\* the i-th row the reader yielded
RowAt(i) == Catalogue[consumed[i]]

\* the row behind the j-th accepted transaction of run sb
AcceptedRow(sb, j) == RowAt(run[sb].accepted[j])

Blank(cell) == \A i \in 1..Len(cell) : cell[i] \in Whitespace
Trimmed(cell) == strip(cell)

\* a row of blank cells only
AllBlank(row) == \A i \in 1..Len(row) : Blank(row[i])

\* the delimiter-joined text of the row begins with four delimiters and "Total"
FooterText(row) ==
    LET d == args.delimiter
        text == join(<<d>>, row)
    IN  Len(text) >= 9 /\ SubSeq(text, 1, 9) = <<d, d, d, d, "T", "o", "t", "a", "l">>

\* line i is one the program is to skip
SkipLine(i) == i < 3 \/ AllBlank(RowAt(i)) \/ FooterText(RowAt(i))

\* DD.MM.YYYY: at least ten characters, a dot third and sixth
DateShape(d) == Len(d) >= 10 /\ SubSeq(d, 3, 3) = <<".">> /\ SubSeq(d, 6, 6) = <<".">>

\* a row that must abort the run when examined
BadRow(row) ==
    \/ Len(row) < 13
    \/ ~DateShape(Trimmed(row[13]))
    \/ ~DateShape(Trimmed(row[4]))
    \/ (Blank(row[11]) /\ Blank(row[12]))

\* line i holds a row the program is to accept when it examines it
AcceptableLine(i) == ~SkipLine(i) /\ ~BadRow(RowAt(i))

\* the six characters YYMMDD and DDMMYY of a date DD.MM.YYYY
YYMMDD(d) == SubSeq(d, 9, 10) \o SubSeq(d, 4, 5) \o SubSeq(d, 1, 2)
DDMMYY(d) == SubSeq(d, 1, 2) \o SubSeq(d, 4, 5) \o SubSeq(d, 9, 10)

\* the number of lines of a text that ends each line with CR LF
LineCount(text) == Cardinality({i \in 1..Len(text) : text[i] = "\n"})

Aborted(sb) == run[sb].pc \in RowErrors
Completed(sb) == run[sb].pc = "done"
Ended(sb) == run[sb].pc \notin {"loop", "write"}

----------------------------------------------------------------------------
(* C1 *)

\* the direction code and the amount text in the :61: line of a body built for row
DirectionAndAmountOk(body, row) ==
    LET primary == Trimmed(row[11])
        alt     == Trimmed(row[12])
        dc      == body[15]
        chosen  == IF primary # <<>> THEN primary ELSE alt
        text    == SubSeq(body, 16, 15 + Len(chosen))
        code    == IF args.profile = "starmoney" THEN <<"N", "T", "R", "F">> ELSE <<"F", "C", "H", "G">>
    IN  /\ SubSeq(body, 1, 4) = <<":", "6", "1", ":">>
        /\ dc \in {"D", "C"}
        /\ (dc = "D") <=> (primary # <<>>)
        /\ (dc = "C") <=> (primary = <<>> /\ alt # <<>>)
        /\ chosen # <<>>
        /\ \A i \in 1..Len(chosen) : text[i] = (IF chosen[i] = "." THEN "," ELSE chosen[i])
        /\ SubSeq(body, 16 + Len(chosen), 33 + Len(chosen)) = code \o <<"N", "O", "N", "R", "E", "F", "/", "/", "N", "O", "N", "R", "E", "F">>

\* C1: in the :61: line of every accepted row the direction code is D exactly
\* when column 10 is non-blank and C exactly when column 10 is blank and
\* column 11 is not; the amount is the trimmed chosen column with every "."
\* replaced by ","; a row with both columns blank is never accepted.
C1_DirectionAndAmount ==
    \A sb \in Runs : \A j \in 1..Len(run[sb].bodies) :
        /\ j <= Len(run[sb].accepted)
        /\ DirectionAndAmountOk(run[sb].bodies[j], AcceptedRow(sb, j))

\* a debit row and a credit row with a decimal point have both been accepted
C1_Witness ==
    \E sb \in Runs : \E j, k \in 1..Len(run[sb].bodies) :
        /\ run[sb].bodies[j][15] = "D"
        /\ run[sb].bodies[k][15] = "C"
        /\ \E i \in 1..Len(Trimmed(AcceptedRow(sb, k)[12])) :
              Trimmed(AcceptedRow(sb, k)[12])[i] = "."

----------------------------------------------------------------------------
(* C2 *)

\* C2: once an examined row has too few columns, an ill-formed booking or
\* value date, or two blank amount columns, the run has aborted at that row
\* and nothing has been written to the output, however many rows were
\* accepted before it.
C2_AbortWritesNothing ==
    \A sb \in Runs :
        /\ \A i \in 3..run[sb].lineNumber :
              (~SkipLine(i) /\ BadRow(RowAt(i))) =>
                  /\ Aborted(sb)
                  /\ run[sb].lineNumber = i
                  /\ run[sb].out = <<>>
        /\ Aborted(sb) => run[sb].out = <<>>

\* a run that aborted after it had accepted a row
C2_Witness ==
    \E sb \in Runs :
        /\ Aborted(sb)
        /\ run[sb].tx_count >= 1
        /\ BadRow(RowAt(run[sb].lineNumber))
        /\ run[sb].out = <<>>

----------------------------------------------------------------------------
(* C3 *)

\* the length of the bodies written before the k-th one, the last accepted first
RECURSIVE WrittenBefore(_, _)
WrittenBefore(bodies, k) ==
    IF k <= 1 THEN 0
    ELSE WrittenBefore(bodies, k - 1) + Len(bodies[Len(bodies) - (k - 1) + 1])

\* C3: in the serialized statement the k-th body written is the body of the
\* (n-k+1)-th accepted row, and every accepted body is written exactly once.
C3_BodiesReversed ==
    \A sb \in Runs : Completed(sb) =>
        LET r     == run[sb]
            n     == Len(r.bodies)
            start == Len(BOM) + Len(r.header) + (IF sb THEN 0 ELSE Len(line_60F(r)))
            tail  == (IF sb THEN 0 ELSE Len(line_62F(r))) + Len(CRLF)
        IN  /\ n = r.tx_count
            /\ n = Len(r.accepted)
            /\ \A k \in 1..n :
                  LET body == r.bodies[n - k + 1]
                      off  == start + WrittenBefore(r.bodies, k)
                  IN  SubSeq(r.out, off + 1, off + Len(body)) = body
            /\ Len(r.out) = start + WrittenBefore(r.bodies, n + 1) + tail

\* a completed run with two accepted rows whose bodies differ
C3_Witness ==
    \E sb \in Runs :
        /\ Completed(sb)
        /\ Len(run[sb].bodies) >= 2
        /\ run[sb].bodies[1] # run[sb].bodies[2]

----------------------------------------------------------------------------
(* C4 *)

\* C4: processing a row that is one of the first two, is fully blank, or whose
\* delimiter-joined text begins with four delimiters followed by "Total"
\* advances the row counter and changes nothing else of the run: header,
\* count, bodies, openingDate, closingDate and currency stay, and no error is
\* raised, whatever the row's column count and dates.
C4_SkippedRowsChangeNothing ==
    [][\A sb \in Runs :
          (/\ consumed' # consumed
           /\ run[sb].pc = "loop"
           /\ \/ Len(consumed') < 3
              \/ AllBlank(Catalogue[consumed'[Len(consumed')]])
              \/ FooterText(Catalogue[consumed'[Len(consumed')]]))
          => run'[sb] = [run[sb] EXCEPT !.lineNumber = @ + 1]]_vars

----------------------------------------------------------------------------
(* C5 *)

\* the places of a text where a line begins
LineStarts(text) == {1, 2} \cup {i \in 2..Len(text) : text[i - 1] = "\n"}

\* the text without its line that begins at place i
WithoutLineAt(text, i) ==
    LET ends == {j \in i..Len(text) : text[j] = "\n"}
        e == CHOOSE j \in ends : \A k \in ends : j <= k
    IN  SubSeq(text, 1, i - 1) \o SubSeq(text, e + 1, Len(text))

\* the text without its first line that begins with tag, itself if there is none
WithoutFirstLine(text, tag) ==
    LET at == {i \in LineStarts(text) :
                 i + Len(tag) - 1 <= Len(text) /\ SubSeq(text, i, i + Len(tag) - 1) = tag}
    IN  IF at = {} THEN text
        ELSE WithoutLineAt(text, CHOOSE i \in at : \A k \in at : i <= k)

\* the text without its last line that begins with tag, itself if there is none
WithoutLastLine(text, tag) ==
    LET at == {i \in LineStarts(text) :
                 i + Len(tag) - 1 <= Len(text) /\ SubSeq(text, i, i + Len(tag) - 1) = tag}
    IN  IF at = {} THEN text
        ELSE WithoutLineAt(text, CHOOSE i \in at : \A k \in at : i >= k)

\* C5: on the same rows and the same other options, the run with
\* suppress-balances and the run without it end the same way (both abort or
\* both complete), and the output of the first is the output of the second
\* without its :60F: line and its :62F: line.
C5_SuppressBalancesOnlyDropsBalances ==
    (Ended(TRUE) /\ Ended(FALSE)) =>
        /\ Completed(TRUE) <=> Completed(FALSE)
        /\ Aborted(TRUE) <=> Aborted(FALSE)
        /\ Completed(TRUE) =>
              run[TRUE].out =
                  WithoutLastLine(WithoutFirstLine(run[FALSE].out, <<":", "6", "0", "F", ":">>), <<":", "6", "2", "F", ":">>)

----------------------------------------------------------------------------
(* C6 *)

\* C6: without the starmoney profile the :86: block of every accepted
\* transaction has at most 6 lines, the tag line included.
C6_PlainNarrativeAtMostSixLines ==
    \A sb \in Runs : \A j \in 1..Len(run[sb].bodies) :
        args.profile # "starmoney" => LineCount(run[sb].bodies[j]) - 1 <= 6

----------------------------------------------------------------------------
(* C7 *)

\* C7: once a row has been accepted, closingDate is the value date of the
\* first accepted row and openingDate that of the most recently accepted
\* row (both as the program renders a balance date, day first), and the
\* header is the one built with the account of the first accepted row; this
\* holds after every later row, so closingDate and the header never change.
C7_DatesAndHeaderTracked ==
    \A sb \in Runs :
        LET r == run[sb]
            n == Len(r.accepted)
        IN  /\ n = r.tx_count
            /\ n >= 1 =>
                  /\ r.closing_date = DDMMYY(Trimmed(AcceptedRow(sb, 1)[4]))
                  /\ r.opening_date = DDMMYY(Trimmed(AcceptedRow(sb, n)[4]))
                  /\ r.header = <<":", "2", "0", ":", "D", "a", "t", "e", "O", "f", "C", "o", "n", "v", "e", "r", "s", "i", "o", "n">> \o now \o CRLF
                                \o <<":", "2", "5", ":">> \o Trimmed(AcceptedRow(sb, 1)[2]) \o CRLF
                                \o <<":", "2", "8", "C", ":", "0", "0", "0", "0", "1", "/", "0", "0", "1">> \o CRLF
            /\ n = 0 => (r.header = <<>> /\ r.closing_date = <<>> /\ r.opening_date = <<>>)

\* two rows accepted that differ in value date and in account
C7_Witness ==
    \E sb \in Runs :
        /\ Len(run[sb].accepted) >= 2
        /\ run[sb].closing_date # run[sb].opening_date
        /\ Trimmed(AcceptedRow(sb, 1)[2]) # Trimmed(AcceptedRow(sb, 2)[2])

----------------------------------------------------------------------------
(* C8 *)

\* the six characters after ":61:" in a body
Date61(body) == SubSeq(body, 5, 10)

\* C8: the date in the :60F: line and the date in the :62F: line are the
\* YYMMDD form of the tracked row's value date, that is, the six characters
\* after ":61:" in the body of that row: the last accepted row for :60F:,
\* the first for :62F:.
C8_BalanceDatesAreYYMMDD ==
    (Completed(FALSE) /\ run[FALSE].tx_count >= 1) =>
        LET r   == run[FALSE]
            n   == Len(r.bodies)
            h   == Len(BOM) + Len(r.header)
            l62 == Len(<<":", "6", "2", "F", ":", "C">>) + 6 + Len(r.curr) + Len(<<"0", ",", "0">>) + Len(CRLF)
            t   == Len(r.out) - Len(CRLF) - l62
        IN  /\ SubSeq(r.out, h + 1, h + 6) = <<":", "6", "0", "F", ":", "C">>
            /\ SubSeq(r.out, h + 7, h + 12) = Date61(r.bodies[n])
            /\ SubSeq(r.out, h + 7, h + 12) = YYMMDD(Trimmed(AcceptedRow(FALSE, n)[4]))
            /\ SubSeq(r.out, t + 1, t + 6) = <<":", "6", "2", "F", ":", "C">>
            /\ SubSeq(r.out, t + 7, t + 12) = Date61(r.bodies[1])
            /\ SubSeq(r.out, t + 7, t + 12) = YYMMDD(Trimmed(AcceptedRow(FALSE, 1)[4]))

----------------------------------------------------------------------------
(* C9 *)

\* C9: with a limit N > 0 the count of accepted transactions never exceeds N,
\* and once it is N the loop has ended at the N-th accepted row: no later row
\* is read, accepted or able to abort the run.  With any limit, 0 included,
\* the accepted rows are, in input order, exactly the acceptable rows among
\* those read.
C9_LimitStopsTheLoop ==
    \A sb \in Runs :
        LET r == run[sb]
            n == Len(r.accepted)
        IN  /\ n = r.tx_count
            /\ \A j \in 1..(n - 1) : r.accepted[j] < r.accepted[j + 1]
            /\ {r.accepted[j] : j \in 1..n}
                 = {i \in 3..r.lineNumber : AcceptableLine(i)}
            /\ args.limit > 0 => r.tx_count <= args.limit
            /\ (args.limit > 0 /\ r.tx_count = args.limit) =>
                  /\ r.pc \in {"write", "done"}
                  /\ r.lineNumber = r.accepted[n]
                  /\ Len(consumed) = r.lineNumber

\* a run that the limit stopped at its second accepted row and that completed
\* while the reader could have yielded more rows
C9_Witness ==
    \E sb \in Runs :
        /\ args.limit >= 2
        /\ run[sb].tx_count = args.limit
        /\ Completed(sb)
        /\ Len(consumed) < MaxRows

----------------------------------------------------------------------------
(* C10 *)

\* C10: a run ends either completed, the whole statement serialized, or
\* aborted with InvalidDateFormat, MissingAmount or MalformedRow; it is in
\* no other failure state, also when no row was accepted.
C10_OnlyRowErrorsOrCompletion ==
    \A sb \in Runs :
        /\ run[sb].pc \in {"loop", "write", "done"} \cup RowErrors
        /\ Completed(sb) =>
              /\ SubSeq(run[sb].out, 1, Len(BOM)) = BOM
              /\ SubSeq(run[sb].out, Len(run[sb].out) - 1, Len(run[sb].out)) = CRLF

====
